---------------------------- MODULE Spec2Model ----------------------------
(***************************************************************************)
(* Model of events_providers.py: the two provider adapters                 *)
(* (fetch_eventbrite_events, fetch_campus_events), merge_and_dedupe and    *)
(* the orchestration get_events_for_query (call providers, merge, dedupe,  *)
(* sort, radius filter).                                                   *)
(*                                                                         *)
(* Representation.                                                         *)
(*  - A Python str that the code lower()s or joins is a sequence of        *)
(*    one-character strings; "" and None are both the empty sequence for   *)
(*    the fields the code tests by truthiness (x or default).              *)
(*  - Optional[T] is a sequence of length 0 (None) or 1 (a value).         *)
(*  - A datetime is [aware, t]: aware tells whether it carries a tzinfo,   *)
(*    t is the wall-clock hour count; aware values of the model all carry  *)
(*    offset +00:00, so t is also their UTC instant.                       *)
(*  - Coordinates are whole degrees; float arithmetic of haversine_km is   *)
(*    fixed-point arithmetic with FixedScale units per 1.0.                *)
(***************************************************************************)
EXTENDS Integers, Sequences, FiniteSets, TLC

VARIABLES
    pc,                      \* position inside get_events_for_query
    env,                     \* os.environ: which configuration is set
    query,                   \* the five arguments of get_events_for_query
    requests,                \* upstream sources contacted so far (requests.get calls)
    eventbrite_data,         \* resp.json()["events"] of the Eventbrite request, once made
    campus_divs,             \* soup.select(".event-item") of the campus page, once fetched
    events_from_eventbrite,  \* list returned by fetch_eventbrite_events
    campus_events,           \* list returned by fetch_campus_events
    events,                  \* list returned by merge_and_dedupe
    filtered,                \* list returned by get_events_for_query
    error                    \* exception that left get_events_for_query, or "none"

vars == <<pc, env, query, requests, eventbrite_data, campus_divs,
          events_from_eventbrite, campus_events, events, filtered, error>>

----------------------------------------------------------------------------
(* Bounds of the model *)

\* longest "events" array of an Eventbrite response
MaxEventbriteItems == 2

\* largest number of .event-item blocks on the campus page
MaxCampusItems == 2

----------------------------------------------------------------------------
(* Optional values and text *)

None == <<>>

Some(x) == <<x>>

\* str.lower() restricted to the letters the model's texts use
LowerChar(c) ==
    CASE c = "J" -> "j"
      [] c = "A" -> "a"
      [] c = "H" -> "h"
      [] c = "P" -> "p"
      [] c = "U" -> "u"
      [] c = "E" -> "e"
      [] c = "O" -> "o"
      [] OTHER -> c

lower(s) == [i \in 1..Len(s) |-> LowerChar(s[i])]

\* x or default, for a str x
OrDefault(x, default) == IF x # <<>> THEN x ELSE default

\* ", ".join(parts)
RECURSIVE Join(_)
Join(parts) ==
    IF parts = <<>> THEN <<>>
    ELSE IF Len(parts) = 1 THEN Head(parts)
    ELSE Head(parts) \o <<",", " ">> \o Join(Tail(parts))

----------------------------------------------------------------------------
(* datetime *)

HoursPerDay == 24

DateTime(aware, t) == [aware |-> aware, t |-> t]

\* e.start_time.date().isoformat(): the calendar day of the wall-clock time
date(dt) == dt.t \div HoursPerDay

\* a < b / a <= b on datetimes raise TypeError for a naive and an aware operand
CompareRaises(a, b) == a.aware # b.aware

\* datetime.fromisoformat(s) on a date string [kind, wall, tz]:
\* <<>> stands for ValueError, otherwise <<datetime>>.  tz "none" gives a naive
\* value, "+00:00" an aware one; a trailing "Z" is not accepted (which is why
\* fetch_eventbrite_events rewrites it first).
fromisoformat(s) ==
    IF s.kind # "iso" \/ s.tz = "Z" THEN <<>>
    ELSE <<DateTime(s.tz # "none", s.wall)>>

\* s.replace("Z", "+00:00")
ReplaceZ(s) == IF s.kind = "iso" /\ s.tz = "Z" THEN [s EXCEPT !.tz = "+00:00"] ELSE s

----------------------------------------------------------------------------
(* haversine_km in fixed-point arithmetic *)

FixedScale == 10000

EarthRadiusKm == 6371

FMul(a, b) == (a * b) \div FixedScale

Abs(x) == IF x < 0 THEN -x ELSE x

\* math.radians(deg): deg * pi / 180
radians(deg) == (deg * 31416) \div 180

\* math.sin(x), x in fixed-point radians (odd Taylor polynomial of degree 7)
sin(x) ==
    LET a  == Abs(x)
        x2 == FMul(a, a)
        x3 == FMul(x2, a)
        x5 == FMul(x3, x2)
        x7 == FMul(x5, x2)
        v  == a - (x3 \div 6) + (x5 \div 120) - (x7 \div 5040)
    IN IF x < 0 THEN -v ELSE v

\* math.cos(x) (even Taylor polynomial of degree 8)
cos(x) ==
    LET x2 == FMul(x, x)
        x4 == FMul(x2, x2)
        x6 == FMul(x4, x2)
        x8 == FMul(x4, x4)
    IN FixedScale - (x2 \div 2) + (x4 \div 24) - (x6 \div 720) + (x8 \div 40320)

\* math.sqrt(a): largest r with r*r <= a, in fixed point
RECURSIVE SqrtSearch(_, _, _)
SqrtSearch(n, lo, hi) ==
    IF lo >= hi THEN lo
    ELSE LET mid == (lo + hi + 1) \div 2
         IN IF mid * mid <= n THEN SqrtSearch(n, mid, hi)
            ELSE SqrtSearch(n, lo, mid - 1)

sqrt(a) == SqrtSearch(a * FixedScale, 0, 2 * FixedScale)

\* math.asin(y) for 0 <= y <= 1 (Taylor polynomial of degree 9)
asin(y) ==
    LET y2 == FMul(y, y)
        y3 == FMul(y2, y)
        y5 == FMul(y3, y2)
        y7 == FMul(y5, y2)
        y9 == FMul(y7, y2)
    IN y + (y3 \div 6) + ((3 * y5) \div 40) + ((15 * y7) \div 336)
         + ((35 * y9) \div 1152)

\* haversine_km(lat1, lon1, lat2, lon2), result in whole km
haversine_km(lat1, lon1, lat2, lon2) ==
    LET phi1    == radians(lat1)
        phi2    == radians(lat2)
        dphi    == radians(lat2 - lat1)
        dlambda == radians(lon2 - lon1)
        sp      == sin(dphi \div 2)
        sl      == sin(dlambda \div 2)
        a       == FMul(sp, sp) + FMul(FMul(cos(phi1), cos(phi2)), FMul(sl, sl))
    IN (2 * EarthRadiusKm * asin(sqrt(a))) \div FixedScale

----------------------------------------------------------------------------
(* The Event dataclass *)

Event(title, description, start_time, end_time, venue_name, address, lat, lng, url, source) ==
    [title |-> title, description |-> description, start_time |-> start_time,
     end_time |-> end_time, venue_name |-> venue_name, address |-> address,
     lat |-> lat, lng |-> lng, url |-> url, source |-> source]

----------------------------------------------------------------------------
(* fetch_eventbrite_events *)

\* float(venue[key]) if venue.get(key) else None.  A coordinate of the
\* response is [kind, deg] with kind "absent" (missing, null or ""), "num"
\* (a numeric string) or "garbage" (a string float() rejects).
CoordRaises(c) == c.kind = "garbage"

CoordValue(c) == IF c.kind = "num" THEN Some(c.deg) ELSE None

\* item["start"]["utc"] raises KeyError when missing, fromisoformat raises
\* ValueError when unparsable: both are <<>> here.
EventbriteStart(item) ==
    IF item.start_utc.kind = "missing" THEN <<>>
    ELSE fromisoformat(ReplaceZ(item.start_utc))

\* if item.get("end") and item["end"].get("utc"): end = fromisoformat(...)
EventbriteEndRaises(item) ==
    item.end_utc.kind # "missing" /\ fromisoformat(ReplaceZ(item.end_utc)) = <<>>

EventbriteEnd(item) ==
    IF item.end_utc.kind = "missing" THEN None
    ELSE Some(fromisoformat(ReplaceZ(item.end_utc))[1])

\* address_parts: the truthy values among the address keys, joined
EventbriteAddress(item) == Join(SelectSeq(item.address, LAMBDA part : part # <<>>))

\* The body of the try block for one item: <<>> when it raises (the except
\* clause continues with the next item), <<event>> when it appends.
ParseEventbriteItem(item) ==
    IF \/ EventbriteStart(item) = <<>>
       \/ EventbriteEndRaises(item)
       \/ CoordRaises(item.latitude)
       \/ CoordRaises(item.longitude)
    THEN <<>>
    ELSE <<Event(OrDefault(item.name, <<"U", "E">>),
                 item.description,
                 EventbriteStart(item)[1],
                 EventbriteEnd(item),
                 OrDefault(item.venue_name, <<"U", "v">>),
                 EventbriteAddress(item),
                 CoordValue(item.latitude),
                 CoordValue(item.longitude),
                 item.url,
                 "Eventbrite")>>

\* Variant of EventbriteLoop, for C7: the try block encloses the loop, so the
\* first item that raises ends the iteration.
RECURSIVE EventbriteLoop_StopAtMalformed(_)
EventbriteLoop_StopAtMalformed(items) ==
    IF items = <<>> THEN <<>>
    ELSE IF ParseEventbriteItem(Head(items)) = <<>> THEN <<>>
    ELSE ParseEventbriteItem(Head(items)) \o EventbriteLoop_StopAtMalformed(Tail(items))

\* for item in data.get("events", []): try ... except Exception: continue
RECURSIVE EventbriteLoop(_)
EventbriteLoop(items) ==
    IF items = <<>> THEN <<>>
    ELSE ParseEventbriteItem(Head(items)) \o EventbriteLoop(Tail(items))

----------------------------------------------------------------------------
(* fetch_campus_events *)

\* tag.get_text(strip=True) if tag else default; a tag is <<>> or <<text>>
TagText(tag, default) == IF tag # <<>> THEN tag[1] ELSE default

EmptyDateStr == [kind |-> "empty", wall |-> 0, tz |-> "none"]

\* not (start_date <= start <= end_date), with the TypeError of a comparison
\* between a naive and an aware datetime; the chained comparison stops at
\* the first false operand.
CampusRangeRaises(start, start_date, end_date) ==
    \/ CompareRaises(start_date, start)
    \/ start_date.t <= start.t /\ CompareRaises(start, end_date)

CampusInRange(start, start_date, end_date) ==
    start_date.t <= start.t /\ start.t <= end_date.t

\* One iteration of the loop over .event-item blocks: <<>> when the item
\* raises or is outside the date range, <<event>> when it is appended.
ParseCampusDiv(div, url, start_date, end_date) ==
    LET title      == TagText(div.title_tag, <<"U", "e">>)
        date_str   == TagText(div.date_tag, EmptyDateStr)
        venue_name == TagText(div.venue_tag, <<"O", "c">>)
        url_evt    == TagText(div.link_href, url)
        start      == fromisoformat(date_str)
    IN IF start = <<>> THEN <<>>
       ELSE IF CampusRangeRaises(start[1], start_date, end_date) THEN <<>>
       ELSE IF ~CampusInRange(start[1], start_date, end_date) THEN <<>>
       ELSE <<Event(title, "Campus event", start[1], None, venue_name,
                    venue_name, None, None, url_evt, "Campus")>>

RECURSIVE CampusLoop(_, _, _, _)
CampusLoop(divs, url, start_date, end_date) ==
    IF divs = <<>> THEN <<>>
    ELSE ParseCampusDiv(Head(divs), url, start_date, end_date)
         \o CampusLoop(Tail(divs), url, start_date, end_date)

----------------------------------------------------------------------------
(* merge_and_dedupe *)

\* Variant of Sig, for C10: the signature also tells events of different
\* coordinates apart.
Sig_WithCoordinates(e) ==
    <<lower(e.title), date(e.start_time), lower(e.venue_name), e.lat, e.lng>>

\* sig = (e.title.lower(), date_key, e.venue_name.lower())
Sig(e) == <<lower(e.title), date(e.start_time), lower(e.venue_name)>>

\* Variant of DedupeList, for C2: a later event replaces the event kept for
\* its signature (a dict keyed by signature instead of a set and a list).
RECURSIVE DedupeList_KeepLast(_, _)
DedupeList_KeepLast(lst, acc) ==
    IF lst = <<>> THEN acc
    ELSE LET e == Head(lst)
         IN IF Sig(e) \notin acc.sigs
            THEN DedupeList_KeepLast(Tail(lst),
                                     [sigs |-> acc.sigs \cup {Sig(e)},
                                      merged |-> Append(acc.merged, e)])
            ELSE DedupeList_KeepLast(Tail(lst),
                     [acc EXCEPT !.merged =
                         [k \in 1..Len(acc.merged) |->
                             IF Sig(acc.merged[k]) = Sig(e) THEN e
                             ELSE acc.merged[k]]])

\* for e in lst: if sig not in sigs: sigs.add(sig); merged.append(e)
RECURSIVE DedupeList(_, _)
DedupeList(lst, acc) ==
    IF lst = <<>> THEN acc
    ELSE LET e == Head(lst)
         IN IF Sig(e) \notin acc.sigs
            THEN DedupeList(Tail(lst),
                            [sigs |-> acc.sigs \cup {Sig(e)},
                             merged |-> Append(acc.merged, e)])
            ELSE DedupeList(Tail(lst), acc)

\* for lst in events_lists: ...
RECURSIVE DedupeLists(_, _)
DedupeLists(events_lists, acc) ==
    IF events_lists = <<>> THEN acc
    ELSE DedupeLists(Tail(events_lists), DedupeList(Head(events_lists), acc))

Dedupe(events_lists) == DedupeLists(events_lists, [sigs |-> {}, merged |-> <<>>]).merged

\* Variant of InsertByStartTime, for C4: an element goes before the elements
\* of equal key (an unstable sort).
RECURSIVE InsertByStartTime_BeforeEqual(_, _)
InsertByStartTime_BeforeEqual(sorted, e) ==
    IF sorted = <<>> THEN <<e>>
    ELSE IF e.start_time.t <= Head(sorted).start_time.t THEN <<e>> \o sorted
    ELSE <<Head(sorted)>> \o InsertByStartTime_BeforeEqual(Tail(sorted), e)

\* list.sort is stable: an element goes after every element whose key is not
\* greater than its own.
RECURSIVE InsertByStartTime(_, _)
InsertByStartTime(sorted, e) ==
    IF sorted = <<>> THEN <<e>>
    ELSE IF e.start_time.t < Head(sorted).start_time.t THEN <<e>> \o sorted
    ELSE <<Head(sorted)>> \o InsertByStartTime(Tail(sorted), e)

RECURSIVE SortFrom(_, _)
SortFrom(rest, sorted) ==
    IF rest = <<>> THEN sorted
    ELSE SortFrom(Tail(rest), InsertByStartTime(sorted, Head(rest)))

\* merged.sort(key=lambda e: e.start_time)
SortByStartTime(merged) == SortFrom(merged, <<>>)

\* The sort raises TypeError exactly when the keys hold a naive and an aware
\* datetime: a comparison sort cannot order two elements it never compared
\* directly or through a chain, so some naive key meets some aware key.
SortRaises(merged) ==
    \E i, j \in 1..Len(merged) :
        CompareRaises(merged[i].start_time, merged[j].start_time)

\* Variant of merge_and_dedupe, for C9: the merged records carry the
\* normalised title the signature was computed from.
merge_and_dedupe_Normalising(events_lists) ==
    LET merged == SortByStartTime(Dedupe(events_lists))
    IN [k \in 1..Len(merged) |-> [merged[k] EXCEPT !.title = lower(merged[k].title)]]

merge_and_dedupe(events_lists) == SortByStartTime(Dedupe(events_lists))

----------------------------------------------------------------------------
(* the radius filter of get_events_for_query *)

\* Variant of KeepInRadius, for C3: the comparison with radius_km is strict.
KeepInRadius_Strict(e, lat, lng, radius_km) ==
    IF e.lat # None /\ e.lng # None
    THEN haversine_km(lat, lng, e.lat[1], e.lng[1]) < radius_km
    ELSE TRUE

\* if e.lat is not None and e.lng is not None:
\*     if haversine_km(lat, lng, e.lat, e.lng) <= radius_km: keep
\* else: keep
KeepInRadius(e, lat, lng, radius_km) ==
    IF e.lat # None /\ e.lng # None
    THEN haversine_km(lat, lng, e.lat[1], e.lng[1]) <= radius_km
    ELSE TRUE

RadiusFilter(evs, lat, lng, radius_km) ==
    SelectSeq(evs, LAMBDA e : KeepInRadius(e, lat, lng, radius_km))

----------------------------------------------------------------------------
(* Inputs: the environment, the query and what the upstream sources answer *)

DateStr(wall, tz) == [kind |-> "iso", wall |-> wall, tz |-> tz]

NoDateStr == [kind |-> "missing", wall |-> 0, tz |-> "none"]

GarbageDateStr == [kind |-> "garbage", wall |-> 0, tz |-> "none"]

Coord(deg) == [kind |-> "num", deg |-> deg]

NoCoord == [kind |-> "absent", deg |-> 0]

\* Items of an Eventbrite response.
\* "Jz"/"Ha" at the query origin, 10:00Z of day 0
EbJazz ==
    [name |-> <<"J", "z">>, description |-> "d1",
     start_utc |-> DateStr(10, "Z"), end_utc |-> NoDateStr,
     venue_name |-> <<"H", "a">>, address |-> << <<"1">>, <<>>, <<"N">> >>,
     latitude |-> Coord(0), longitude |-> Coord(0), url |-> "u1"]

\* the same title, day and venue up to letter case, other time, text and place
EbJazzFar ==
    [name |-> <<"j", "z">>, description |-> "d2",
     start_utc |-> DateStr(12, "Z"), end_utc |-> DateStr(13, "Z"),
     venue_name |-> <<"h", "a">>, address |-> << <<"2">> >>,
     latitude |-> Coord(60), longitude |-> Coord(60), url |-> "u2"]

\* an item whose start does not parse
EbBadDate ==
    [name |-> <<"A", "w">>, description |-> "d3",
     start_utc |-> GarbageDateStr, end_utc |-> NoDateStr,
     venue_name |-> <<"P", "z">>, address |-> <<>>,
     latitude |-> Coord(0), longitude |-> Coord(0), url |-> "u3"]

\* no name, no venue name, a venue with a latitude and no longitude
EbHalfGeo ==
    [name |-> <<>>, description |-> "",
     start_utc |-> DateStr(10, "Z"), end_utc |-> NoDateStr,
     venue_name |-> <<>>, address |-> <<>>,
     latitude |-> Coord(30), longitude |-> NoCoord, url |-> ""]

\* a start without "Z" or offset, day 1, 30 degrees east of the origin
EbNaive ==
    [name |-> <<"A", "w">>, description |-> "d5",
     start_utc |-> DateStr(30, "none"), end_utc |-> NoDateStr,
     venue_name |-> <<"P", "z">>, address |-> << <<"5">> >>,
     latitude |-> Coord(0), longitude |-> Coord(30), url |-> "u5"]

EventbriteItems == {EbJazz, EbJazzFar, EbBadDate, EbHalfGeo, EbNaive}

\* .event-item blocks of the campus page.
CampusJazz ==
    [title_tag |-> << <<"J", "z">> >>, date_tag |-> <<DateStr(12, "none")>>,
     venue_tag |-> << <<"h", "a">> >>, link_href |-> <<"c1">>]

CampusArt ==
    [title_tag |-> << <<"A", "w">> >>, date_tag |-> <<DateStr(30, "none")>>,
     venue_tag |-> <<>>, link_href |-> <<>>]

\* no .event-date element: date_str is ""
CampusNoDate ==
    [title_tag |-> <<>>, date_tag |-> <<>>,
     venue_tag |-> << <<"P", "z">> >>, link_href |-> <<"c3">>]

\* a date with an explicit offset
CampusAware ==
    [title_tag |-> << <<"A", "w">> >>, date_tag |-> <<DateStr(10, "+00:00")>>,
     venue_tag |-> << <<"P", "z">> >>, link_href |-> <<"c4">>]

\* a date after the end of the queried range
CampusLate ==
    [title_tag |-> << <<"J", "z">> >>, date_tag |-> <<DateStr(60, "none")>>,
     venue_tag |-> << <<"P", "z">> >>, link_href |-> <<"c5">>]

CampusItems == {CampusJazz, CampusArt, CampusNoDate, CampusAware, CampusLate}

SeqsUpTo(S, n) == UNION {[1..k -> S] : k \in 0..n}

EventbritePayloads == SeqsUpTo(EventbriteItems, MaxEventbriteItems)

CampusPages == SeqsUpTo(CampusItems, MaxCampusItems)

Environments == [EVENTBRITE_TOKEN : {"", "token"}, CAMPUS_EVENTS_URL : {"", "campus-url"}]

\* Origin (0, 0), radius 0 km or 4000 km, days 0 and 1, naive or aware range
Queries ==
    [lat : {0}, lng : {0}, radius_km : {0, 4000},
     start_date : {DateTime(FALSE, 0)}, end_date : {DateTime(FALSE, 47)}]
    \cup
    [lat : {0}, lng : {0}, radius_km : {0, 4000},
     start_date : {DateTime(TRUE, 0)}, end_date : {DateTime(TRUE, 47)}]

----------------------------------------------------------------------------
(* get_events_for_query, one action per call it makes *)

Init ==
    /\ pc = "fetch_eventbrite"
    /\ env \in Environments
    /\ query \in Queries
    /\ requests = {}
    /\ eventbrite_data = <<>>
    /\ campus_divs = <<>>
    /\ events_from_eventbrite = <<>>
    /\ campus_events = <<>>
    /\ events = <<>>
    /\ filtered = <<>>
    /\ error = "none"

\* Variant of FetchEventbriteNoToken, for C8: without a token the request is
\* made all the same, unauthenticated.
FetchEventbriteNoToken_StillRequests ==
    /\ pc = "fetch_eventbrite"
    /\ env.EVENTBRITE_TOKEN = ""
    /\ \E data \in EventbritePayloads :
          /\ eventbrite_data' = data
          /\ events_from_eventbrite' = EventbriteLoop(data)
    /\ requests' = requests \cup {"eventbrite"}
    /\ pc' = "fetch_campus"
    /\ UNCHANGED <<env, query, campus_divs, campus_events, events, filtered, error>>

\* fetch_eventbrite_events: if not token: return []
FetchEventbriteNoToken ==
    /\ pc = "fetch_eventbrite"
    /\ env.EVENTBRITE_TOKEN = ""
    /\ events_from_eventbrite' = <<>>
    /\ pc' = "fetch_campus"
    /\ UNCHANGED <<env, query, requests, eventbrite_data, campus_divs,
                   campus_events, events, filtered, error>>

\* fetch_eventbrite_events: requests.get or resp.raise_for_status() raises;
\* nothing catches it in fetch_eventbrite_events or get_events_for_query
FetchEventbriteRequestFails ==
    /\ pc = "fetch_eventbrite"
    /\ env.EVENTBRITE_TOKEN # ""
    /\ requests' = requests \cup {"eventbrite"}
    /\ error' = "RequestException"
    /\ pc' = "raised"
    /\ UNCHANGED <<env, query, eventbrite_data, campus_divs,
                   events_from_eventbrite, campus_events, events, filtered>>

\* fetch_eventbrite_events: the request succeeds and the items are parsed
FetchEventbriteEvents ==
    /\ pc = "fetch_eventbrite"
    /\ env.EVENTBRITE_TOKEN # ""
    /\ \E data \in EventbritePayloads :
          /\ eventbrite_data' = data
          /\ events_from_eventbrite' = EventbriteLoop(data)
    /\ requests' = requests \cup {"eventbrite"}
    /\ pc' = "fetch_campus"
    /\ UNCHANGED <<env, query, campus_divs, campus_events, events, filtered, error>>

\* fetch_campus_events: if not url: return []
FetchCampusNoUrl ==
    /\ pc = "fetch_campus"
    /\ env.CAMPUS_EVENTS_URL = ""
    /\ campus_events' = <<>>
    /\ pc' = "merge"
    /\ UNCHANGED <<env, query, requests, eventbrite_data, campus_divs,
                   events_from_eventbrite, events, filtered, error>>

\* fetch_campus_events: requests.get or resp.raise_for_status() raises
FetchCampusRequestFails ==
    /\ pc = "fetch_campus"
    /\ env.CAMPUS_EVENTS_URL # ""
    /\ requests' = requests \cup {"campus"}
    /\ error' = "RequestException"
    /\ pc' = "raised"
    /\ UNCHANGED <<env, query, eventbrite_data, campus_divs,
                   events_from_eventbrite, campus_events, events, filtered>>

\* fetch_campus_events: the page is fetched and its blocks are parsed
FetchCampusEvents ==
    /\ pc = "fetch_campus"
    /\ env.CAMPUS_EVENTS_URL # ""
    /\ \E divs \in CampusPages :
          /\ campus_divs' = divs
          /\ campus_events' = CampusLoop(divs, env.CAMPUS_EVENTS_URL,
                                         query.start_date, query.end_date)
    /\ requests' = requests \cup {"campus"}
    /\ pc' = "merge"
    /\ UNCHANGED <<env, query, eventbrite_data, events_from_eventbrite,
                   events, filtered, error>>

\* merge_and_dedupe([events_from_eventbrite, campus_events]) returns
MergeAndDedupe ==
    /\ pc = "merge"
    /\ ~SortRaises(Dedupe(<<events_from_eventbrite, campus_events>>))
    /\ events' = merge_and_dedupe(<<events_from_eventbrite, campus_events>>)
    /\ pc' = "radius_filter"
    /\ UNCHANGED <<env, query, requests, eventbrite_data, campus_divs,
                   events_from_eventbrite, campus_events, filtered, error>>

\* merge_and_dedupe: merged.sort raises TypeError, which leaves
\* get_events_for_query
MergeAndDedupeRaises ==
    /\ pc = "merge"
    /\ SortRaises(Dedupe(<<events_from_eventbrite, campus_events>>))
    /\ error' = "TypeError"
    /\ pc' = "raised"
    /\ UNCHANGED <<env, query, requests, eventbrite_data, campus_divs,
                   events_from_eventbrite, campus_events, events, filtered>>

\* the radius filter and the return of get_events_for_query
FilterByRadius ==
    /\ pc = "radius_filter"
    /\ filtered' = RadiusFilter(events, query.lat, query.lng, query.radius_km)
    /\ pc' = "done"
    /\ UNCHANGED <<env, query, requests, eventbrite_data, campus_divs,
                   events_from_eventbrite, campus_events, events, error>>

Next ==
    \/ FetchEventbriteNoToken
    \/ FetchEventbriteRequestFails
    \/ FetchEventbriteEvents
    \/ FetchCampusNoUrl
    \/ FetchCampusRequestFails
    \/ FetchCampusEvents
    \/ MergeAndDedupe
    \/ MergeAndDedupeRaises
    \/ FilterByRadius

Spec == Init /\ [][Next]_vars

----------------------------------------------------------------------------
(* Vocabulary of the properties *)

Range(s) == {s[i] : i \in 1..Len(s)}

Count(s, x) == Cardinality({i \in 1..Len(s) : s[i] = x})

\* the adapters' lists in the order merge_and_dedupe reads them
AdapterEvents == events_from_eventbrite \o campus_events

MergeReturned == pc \in {"radius_filter", "done"}

Returned == pc = "done"

\* the dedup signature as the specification words it
DedupSignature(e) ==
    <<lower(e.title), e.start_time.t \div HoursPerDay, lower(e.venue_name)>>

\* index of the first event of s that carries e's signature
FirstWithSignature(s, e) ==
    CHOOSE i \in 1..Len(s) :
        /\ DedupSignature(s[i]) = DedupSignature(e)
        /\ \A j \in 1..(i - 1) : DedupSignature(s[j]) # DedupSignature(e)

HasCoordinates(e) == e.lat # None /\ e.lng # None

DistanceFromOrigin(e) == haversine_km(query.lat, query.lng, e.lat[1], e.lng[1])

NonDecreasing(s) ==
    \A i, j \in 1..Len(s) : i < j => s[i].start_time.t <= s[j].start_time.t

\* events of s with equal start_time stand in the order of their first
\* occurrence in AdapterEvents, which is the order the dedup loop kept them in
TiesInDedupOrder(s) ==
    \A i, j \in 1..Len(s) :
        (i < j /\ s[i].start_time.t = s[j].start_time.t)
            => FirstWithSignature(AdapterEvents, s[i])
                 < FirstWithSignature(AdapterEvents, s[j])

----------------------------------------------------------------------------
(* C1 *)

\* C1: an adapter whose upstream request fails contributes an empty list;
\* the failure never leaves get_events_for_query.
C1_RequestFailureNotPropagated == error # "RequestException"

----------------------------------------------------------------------------
(* C2 *)

\* C2: when merge_and_dedupe returns, its result holds exactly one event per
\* dedup signature of the input, and that event is the first one carrying
\* the signature in list order.
C2_FirstEventPerSignature ==
    MergeReturned =>
        /\ \A e \in Range(AdapterEvents) :
              Cardinality({k \in 1..Len(events) :
                              DedupSignature(events[k]) = DedupSignature(e)}) = 1
        /\ \A k \in 1..Len(events) :
              /\ events[k] \in Range(AdapterEvents)
              /\ events[k] = AdapterEvents[FirstWithSignature(AdapterEvents, events[k])]

\* a campus event repeats the signature of an earlier Eventbrite event with
\* another description, url and position
C2_Witness ==
    /\ MergeReturned
    /\ \E e \in Range(events_from_eventbrite), c \in Range(campus_events) :
          /\ DedupSignature(e) = DedupSignature(c)
          /\ e.description # c.description
          /\ e.url # c.url
          /\ e.lat # c.lat
          /\ e \in Range(events)
          /\ c \notin Range(events)

----------------------------------------------------------------------------
(* C3 *)

\* C3: an event that survived the merge is in the result of
\* get_events_for_query exactly when its lat or its lng is absent or its
\* haversine distance from the origin is at most radius_km.
C3_RadiusFilterKeepsExactly ==
    Returned =>
        \A e \in Range(events) :
            e \in Range(filtered)
                <=> \/ e.lat = None
                    \/ e.lng = None
                    \/ DistanceFromOrigin(e) <= query.radius_km

\* one event is dropped for its distance, one is kept without coordinates
C3_Witness ==
    /\ Returned
    /\ \E e \in Range(events) :
          HasCoordinates(e) /\ DistanceFromOrigin(e) > query.radius_km
                            /\ e \notin Range(filtered)
    /\ \E e \in Range(filtered) : ~HasCoordinates(e)

----------------------------------------------------------------------------
(* C4 *)

\* C4: the list merge_and_dedupe returns and the list get_events_for_query
\* returns are non-decreasing by start_time, and events with equal
\* start_time keep the order of the dedup step.
C4_SortedAndStable ==
    /\ MergeReturned => NonDecreasing(events) /\ TiesInDedupOrder(events)
    /\ Returned => NonDecreasing(filtered) /\ TiesInDedupOrder(filtered)

\* the adapters delivered a later event before an earlier one, and the
\* result holds two events with equal start_time
C4_Witness ==
    /\ Returned
    /\ ~NonDecreasing(AdapterEvents)
    /\ \E i, j \in 1..Len(filtered) :
          i < j /\ filtered[i].start_time.t = filtered[j].start_time.t

----------------------------------------------------------------------------
(* C5 *)

\* C5: all start_times the adapters produce are of one timezone kind, so a
\* call that merges records of both adapters never raises from comparing
\* them in the sort.
C5_TimezoneConsistent ==
    (events_from_eventbrite # <<>> /\ campus_events # <<>>) => error # "TypeError"

----------------------------------------------------------------------------
(* C6 *)

\* C6: in every record of an adapter and of the result, lat and lng are
\* both present or both absent.
C6_LatLngTogether ==
    \A e \in Range(AdapterEvents) \cup Range(filtered) :
        (e.lat = None) <=> (e.lng = None)

----------------------------------------------------------------------------
(* C7 *)

\* what makes an Eventbrite item well-formed: its start parses, its end
\* parses when there is one, its coordinates are numbers when there are any
WellFormedEventbriteItem(item) ==
    /\ item.start_utc.kind = "iso"
    /\ item.end_utc.kind \in {"missing", "iso"}
    /\ item.latitude.kind # "garbage"
    /\ item.longitude.kind # "garbage"

\* what makes a campus block well-formed: it has a date that parses
WellFormedCampusDiv(div) ==
    /\ div.date_tag # <<>>
    /\ div.date_tag[1].kind = "iso"
    /\ div.date_tag[1].tz # "Z"

\* the date of a well-formed campus block is of the timezone kind of the
\* queried range and lies inside it
CampusDivInQueriedRange(div) ==
    LET aware == div.date_tag[1].tz # "none"
        wall  == div.date_tag[1].wall
    IN /\ aware = query.start_date.aware
       /\ aware = query.end_date.aware
       /\ query.start_date.t <= wall
       /\ wall <= query.end_date.t

RecordOfEventbriteItem(e, item) ==
    /\ e.source = "Eventbrite"
    /\ e.url = item.url
    /\ e.description = item.description
    /\ e.start_time.t = item.start_utc.wall

RecordOfCampusDiv(e, div) ==
    /\ e.source = "Campus"
    /\ e.start_time.t = div.date_tag[1].wall
    /\ e.url = (IF div.link_href # <<>> THEN div.link_href[1] ELSE env.CAMPUS_EVENTS_URL)
    /\ (div.title_tag # <<>> => e.title = div.title_tag[1])

\* the records are those of the chosen items, one each, in payload order
RecordsOfEventbriteItems(records, items) ==
    /\ Len(records) = Len(items)
    /\ \A k \in 1..Len(items) : RecordOfEventbriteItem(records[k], items[k])

RecordsOfCampusDivs(records, divs) ==
    /\ Len(records) = Len(divs)
    /\ \A k \in 1..Len(divs) : RecordOfCampusDiv(records[k], divs[k])

----------------------------------------------------------------------------
(* C8 *)

\* what get_events_for_query makes of one adapter's list alone
ResultOf(lst) ==
    RadiusFilter(merge_and_dedupe(<<lst>>), query.lat, query.lng, query.radius_km)

\* C8: an adapter without its configuration contacts no upstream source,
\* returns the empty list and raises nothing; get_events_for_query then
\* returns what the other adapter's events alone give, and raises only if
\* the other adapter's request or events make it raise.
C8_MissingConfigurationContributesNothing ==
    /\ env.EVENTBRITE_TOKEN = "" =>
          /\ "eventbrite" \notin requests
          /\ events_from_eventbrite = <<>>
          /\ pc # "fetch_eventbrite" /\ "campus" \notin requests => pc # "raised"
          /\ error = "TypeError" => SortRaises(Dedupe(<<campus_events>>))
          /\ Returned => filtered = ResultOf(campus_events)
    /\ env.CAMPUS_EVENTS_URL = "" =>
          /\ "campus" \notin requests
          /\ campus_events = <<>>
          /\ pc = "raised" /\ error = "TypeError" =>
                SortRaises(Dedupe(<<events_from_eventbrite>>))
          /\ pc = "raised" /\ error # "TypeError" =>
                error = "RequestException" /\ events_from_eventbrite = <<>>
          /\ Returned => filtered = ResultOf(events_from_eventbrite)

\* a call without EVENTBRITE_TOKEN returned campus events
C8_Witness ==
    /\ Returned
    /\ env.EVENTBRITE_TOKEN = ""
    /\ filtered # <<>>
    /\ requests = {"campus"}

----------------------------------------------------------------------------
(* C9 *)

\* every record of the result is a record of an adapter, and occurs no more
\* often than the adapters returned it
ResultDrawnFromAdapters ==
    \A r \in Range(filtered) :
        /\ r \in Range(AdapterEvents)
        /\ Count(filtered, r) <= Count(AdapterEvents, r)

\* C9: merge_and_dedupe and the radius filter leave the adapters' lists as
\* they are, and every record get_events_for_query returns is a record of
\* an adapter, field for field, no more often than the adapters returned it.
C9_AggregatorOnlyReordersAndFilters ==
    [][/\ pc \in {"merge", "radius_filter"} =>
             /\ events_from_eventbrite' = events_from_eventbrite
             /\ campus_events' = campus_events
       /\ pc' = "radius_filter" =>
             \A r \in Range(events') : r \in Range(AdapterEvents)
       /\ pc' = "done" => ResultDrawnFromAdapters']_vars

\* the result is a reordered, shortened selection of the adapters' records
C9_Witness ==
    /\ Returned
    /\ filtered # <<>>
    /\ Len(filtered) < Len(AdapterEvents)
    /\ ~NonDecreasing(AdapterEvents)
    /\ \E r \in Range(filtered) : r.title # lower(r.title)

----------------------------------------------------------------------------
(* C10 *)

\* C10: when the first event carrying a signature has coordinates farther
\* than radius_km from the origin, the result holds no event with that
\* signature, whatever the later events with the signature are.
C10_DedupeBeforeRadiusFilter ==
    Returned =>
        \A i \in 1..Len(AdapterEvents) :
            LET e == AdapterEvents[i]
            IN (/\ FirstWithSignature(AdapterEvents, e) = i
                /\ HasCoordinates(e)
                /\ DistanceFromOrigin(e) > query.radius_km)
               => \A r \in Range(filtered) : DedupSignature(r) # DedupSignature(e)

\* the first event of a signature is too far, a later one with the same
\* signature has no coordinates, another is within the radius
C10_Witness ==
    /\ Returned
    /\ \E i, j, k \in 1..Len(AdapterEvents) :
          LET e == AdapterEvents[i]
              l == AdapterEvents[j]
              m == AdapterEvents[k]
          IN /\ FirstWithSignature(AdapterEvents, e) = i
             /\ HasCoordinates(e)
             /\ DistanceFromOrigin(e) > query.radius_km
             /\ i < j /\ DedupSignature(l) = DedupSignature(e) /\ ~HasCoordinates(l)
             /\ i < k /\ DedupSignature(m) = DedupSignature(e) /\ HasCoordinates(m)
             /\ DistanceFromOrigin(m) <= query.radius_km

=============================================================================
